---- MODULE Spec2Model ----
(***************************************************************************)
(* A model of the OCR pipeline of ollama_ocr: OCRProcessor.process_image   *)
(* (the packaged version, with preprocessing, and the legacy top-level     *)
(* version without it) and OCRProcessor.process_batch.                     *)
(*                                                                         *)
(* Strings are sequences of tokens.  A path such as "d/a.png" is           *)
(* <<"d", "/", "a", ".png">>; str.endswith(x) looks at the last token and  *)
(* f"{p}_temp.jpg" appends a token.  The file system maps every existing   *)
(* path to its content.  Every step of process_image that touches the file *)
(* system or the network is one action, so that the worker threads of      *)
(* process_batch interleave at those points.                               *)
(***************************************************************************)
EXTENDS Naturals, Sequences, FiniteSets, TLC

VARIABLES
    fs,           \* the file system: existing path -> content
    tasks,        \* the process_image calls: one record per call (a task of the pool)
    mode,         \* "image": one direct process_image call; "batch": process_batch
    args,         \* process_batch's arguments: input_path, format_type, recursive, preprocess
    max_workers,  \* OCRProcessor.max_workers
    image_paths,  \* process_batch's resolved list of Path objects
    bpc,          \* where process_batch is: "collect_paths", "submit", "collect", "returned"
    results,      \* process_batch's results dict: str(path) -> returned string
    errors,       \* process_batch's errors dict: str(path) -> str(exception)
    collected,    \* the futures as_completed has yielded (indices of tasks)
    report,       \* the dictionary process_batch returns
    faults        \* environment faults injected so far (write failures, backend failures)

vars == <<fs, tasks, mode, args, max_workers, image_paths, bpc,
          results, errors, collected, report, faults>>

batchVars == <<args, max_workers, image_paths, bpc, results, errors, collected, report>>

(***************************************************************************)
(* Bounds of the model.                                                    *)
(***************************************************************************)
\* longest backend response text, in tokens
MaxRespLen == 3
\* longest explicit list of paths given to process_batch
MaxListLen == 2
\* largest max_workers tried
MaxWorkers == 2
\* environment faults (failed write, transport failure, bad status) per run
MaxFaults == 1

(***************************************************************************)
(* Strings and paths.                                                      *)
(***************************************************************************)
EndsWith(s, tok) == Len(s) > 0 /\ s[Len(s)] = tok

\* str.lower(), token by token
LowerTok(tok) ==
    CASE tok = ".PDF" -> ".pdf"
      [] tok = ".PNG" -> ".png"
      [] tok = "N" -> "n"
      [] OTHER -> tok

Lower(s) == [i \in 1..Len(s) |-> LowerTok(s[i])]

\* pathlib.Path(s) followed by str(): repeated separators collapse and a
\* trailing separator is dropped
RECURSIVE Collapse(_)
Collapse(s) ==
    IF Len(s) < 2 THEN s
    ELSE IF s[1] = "/" /\ s[2] = "/" THEN Collapse(Tail(s))
    ELSE <<s[1]>> \o Collapse(Tail(s))

StrOfPath(s) ==
    LET c == Collapse(s)
    IN  IF Len(c) > 1 /\ c[Len(c)] = "/" THEN SubSeq(c, 1, Len(c) - 1) ELSE c

IsPrefix(p, s) == Len(p) <= Len(s) /\ SubSeq(s, 1, Len(p)) = p

(***************************************************************************)
(* File contents.  kind says what the bytes are, id whose picture it is,   *)
(* ops what has been done to it.                                           *)
(***************************************************************************)
Content(kind, id) == [kind |-> kind, id |-> id, ops |-> <<>>]

NoContent == [kind |-> "none", id |-> "", ops |-> <<>>]

Dir == Content("dir", "")

\* convert_from_path(...)[0] saved as JPEG: the first page, as an image
Rasterize(c) == [kind |-> "image", id |-> c.id, ops |-> Append(c.ops, "page1")]

\* cvtColor, CLAHE, fastNlMeansDenoising: the enhanced image
Enhance(c) == [kind |-> "image", id |-> c.id, ops |-> Append(c.ops, "enhanced")]

\* base64.b64encode(bytes).decode("utf-8")
Base64(c) == [b64 |-> c]

NoPayload == Base64(NoContent)

Exists(f, p) == p \in DOMAIN f

WriteFile(f, p, c) == [q \in DOMAIN f \cup {p} |-> IF q = p THEN c ELSE f[q]]

RemoveFile(f, p) == [q \in DOMAIN f \ {p} |-> f[q]]

InitialFS ==
    LET files == {
            <<<<"d">>, Dir>>,
            <<<<"d", "/", "a", ".png">>, Content("image", "a")>>,
            <<<<"d", "/", "b", ".jpg">>, Content("image", "b")>>,
            <<<<"d", "/", "c", ".pdf">>, Content("pdf", "c")>>,
            <<<<"d", "/", "bad", ".jpeg">>, Content("corrupt", "bad")>>,
            <<<<"q">>, Dir>>,
            <<<<"q", "/", "sub">>, Dir>>,
            <<<<"q", "/", "sub", "/", "f", ".tiff">>, Content("image", "f")>>,
            <<<<"r">>, Dir>>,
            <<<<"r", "/", "s", ".png">>, Dir>>,
            <<<<"r", "/", "N", ".PNG">>, Content("image", "n")>>,
            <<<<"r", "/", "sub">>, Dir>>,
            <<<<"r", "/", "sub", "/", "g", ".png">>, Content("image", "g")>>,
            <<<<"e", ".pdf">>, Content("pdf0", "e")>>,
            <<<<"U", ".PDF">>, Content("pdf", "u")>>,
            <<<<"t", "_temp.jpg">>, Content("image", "t")>>
        }
    IN  [p \in {x[1] : x \in files} |-> (CHOOSE x \in files : x[1] = p)[2]]

(***************************************************************************)
(* The prompt catalogue of process_image (the prompts dictionary).         *)
(***************************************************************************)
prompts ==
    [f \in {"markdown", "text", "json", "structured", "key_value"} |->
        CASE f = "markdown" -> <<"extract all the text content", "Format the output in markdown">>
          [] f = "text" -> <<"extract all the text content", "Provide the output as plain text">>
          [] f = "json" -> <<"extract all the text content", "Structure the output as JSON">>
          [] f = "structured" -> <<"extract all the text content", "focusing on structural elements">>
          [] f = "key_value" -> <<"extract text that appears in key-value pairs">>]

\* a catalogue that falls back to the default format of process_image instead
PromptDefaultsToMarkdown(format_type) ==
    IF format_type \in DOMAIN prompts THEN prompts[format_type] ELSE prompts["markdown"]

\* prompts.get(format_type, prompts["text"])
promptFor(format_type) ==
    IF format_type \in DOMAIN prompts THEN prompts[format_type] ELSE prompts["text"]

\* the format strings tried: the five of the catalogue and two outside it
Formats == {"markdown", "text", "json", "structured", "key_value", "xml", "JSON"}

(***************************************************************************)
(* json.loads and json.dumps(indent=2), on texts over the tokens           *)
(* "[", "]", ",", "1" and " ": numbers made of the digit 1, and arrays.    *)
(***************************************************************************)
JsonTokens == {"[", "]", ",", "1", " "}

JsonIndent == 2

NumVal(ds) == [t |-> "num", digits |-> ds, items |-> <<>>]

ArrVal(vs) == [t |-> "arr", digits |-> <<>>, items |-> vs]

ParseFail == [ok |-> FALSE, val |-> NumVal(<<>>), next |-> 0]

ParseOk(v, n) == [ok |-> TRUE, val |-> v, next |-> n]

\* the first position from i on that holds no whitespace
RECURSIVE SkipWs(_, _)
SkipWs(s, i) == IF i <= Len(s) /\ s[i] \in {" ", "\n"} THEN SkipWs(s, i + 1) ELSE i

\* the first position from i on that holds no digit
RECURSIVE SkipDigits(_, _)
SkipDigits(s, i) == IF i <= Len(s) /\ s[i] = "1" THEN SkipDigits(s, i + 1) ELSE i

RECURSIVE ParseValue(_, _), ParseElems(_, _, _)
ParseValue(s, i) ==
    IF i > Len(s) THEN ParseFail
    ELSE IF s[i] = "1" THEN
        LET j == SkipDigits(s, i) IN ParseOk(NumVal(SubSeq(s, i, j - 1)), j)
    ELSE IF s[i] = "[" THEN
        LET k == SkipWs(s, i + 1)
        IN  IF k <= Len(s) /\ s[k] = "]" THEN ParseOk(ArrVal(<<>>), k + 1)
            ELSE ParseElems(s, k, <<>>)
    ELSE ParseFail

ParseElems(s, i, acc) ==
    LET r == ParseValue(s, i)
    IN  IF ~r.ok THEN ParseFail
        ELSE LET k == SkipWs(s, r.next)
             IN  IF k > Len(s) THEN ParseFail
                 ELSE IF s[k] = "," THEN ParseElems(s, SkipWs(s, k + 1), Append(acc, r.val))
                 ELSE IF s[k] = "]" THEN ParseOk(ArrVal(Append(acc, r.val)), k + 1)
                 ELSE ParseFail

\* json.loads(text): ok is FALSE where it raises JSONDecodeError
json_loads(text) ==
    LET r == ParseValue(text, SkipWs(text, 1))
    IN  IF r.ok /\ SkipWs(text, r.next) = Len(text) + 1 THEN r ELSE ParseFail

Spaces(n) == [i \in 1..n |-> " "]

RECURSIVE DumpValue(_, _, _), DumpItems(_, _, _, _)
DumpValue(v, indent, level) ==
    IF v.t = "num" THEN v.digits
    ELSE IF Len(v.items) = 0 THEN <<"[", "]">>
    ELSE <<"[">> \o DumpItems(v.items, 1, indent, level + 1)
         \o <<"\n">> \o Spaces(indent * level) \o <<"]">>

DumpItems(items, k, indent, level) ==
    IF k > Len(items) THEN <<>>
    ELSE (IF k > 1 THEN <<",">> ELSE <<>>)
         \o <<"\n">> \o Spaces(indent * level)
         \o DumpValue(items[k], indent, level)
         \o DumpItems(items, k + 1, indent, level)

\* json.dumps(json_data, indent=2)
json_dumps(v) == DumpValue(v, JsonIndent, 0)

\* every text the backend may answer with
RECURSIVE TextsUpTo(_)
TextsUpTo(n) ==
    IF n = 0 THEN {<<>>}
    ELSE LET shorter == TextsUpTo(n - 1)
         IN  shorter \cup {Append(s, c) : s \in {x \in shorter : Len(x) = n - 1}, c \in JsonTokens}

(***************************************************************************)
(* One process_image call.                                                 *)
(***************************************************************************)
ErrorPrefix == "Error processing image: "

NoRet == [kind |-> "none", val |-> <<>>]

\* where the body of process_image first touches the outside world
FirstPc(path, pre, legacy) ==
    IF legacy THEN "encode"
    ELSE IF ~pre THEN "encode"
    ELSE IF EndsWith(Lower(path), ".pdf") THEN "pdf_convert"
    ELSE "imread"

NewTask(path, fmt, pre, legacy) ==
    [path |-> path, fmt |-> fmt, pre |-> pre, legacy |-> legacy,
     pc |-> "queued",     \* queued in the pool, or the step the call is at, or "done"
     cur |-> path,        \* the local variable image_path
     img |-> NoContent,   \* the page or image held in memory
     b64 |-> NoPayload,   \* image_base64
     created |-> {},      \* the files this call has written
     sent |-> <<>>,       \* the payloads this call has posted
     resp |-> <<>>,       \* the backend's response text, once received
     got |-> "none",      \* how the request ended: "ok", "transport", "status"
     ret |-> NoRet]       \* how the call ended: returned a string, or raised

\* except Exception as e: return f"Error processing image: {str(e)}"
Caught(task, reason) ==
    [task EXCEPT !.pc = "done", !.ret = [kind |-> "return", val |-> <<ErrorPrefix, reason>>]]

\* an exception raised outside every try block leaves the call
Propagated(task, reason) ==
    [task EXCEPT !.pc = "done", !.ret = [kind |-> "raise", val |-> <<reason>>]]

\* an exception at a step of normalization: the packaged process_image has the
\* whole body in its try block, the legacy one encodes before its try block
NormalizationError(task, reason) ==
    IF task.legacy THEN Propagated(task, reason) ELSE Caught(task, reason)

Returned(task, text) ==
    [task EXCEPT !.pc = "done", !.ret = [kind |-> "return", val |-> text]]

IsTempName(path) == EndsWith(path, "_preprocessed.jpg") \/ EndsWith(path, "_temp.jpg")

\* a clean-up that lets the JSONDecodeError reach the outer handler
PostProcessStrict(format_type, result) ==
    IF format_type = "json"
    THEN LET parsed == json_loads(result)
         IN  IF parsed.ok THEN json_dumps(parsed.val) ELSE <<ErrorPrefix, "JSONDecodeError">>
    ELSE result

\* the JSON clean-up of the result
PostProcess(format_type, result) ==
    IF format_type = "json"
    THEN LET parsed == json_loads(result)
         IN  IF parsed.ok THEN json_dumps(parsed.val) ELSE result
    ELSE result

Payload(task) ==
    [model |-> "llama3.2-vision:11b", prompt |-> promptFor(task.fmt),
     stream |-> FALSE, images |-> <<task.b64>>]

\* the texts the backend answers with: all short texts to a single call, one
\* text to the calls of a batch
ResponseTexts == IF mode = "image" THEN TextsUpTo(MaxRespLen) ELSE {<<"1">>}

MayFault == faults < MaxFaults

\* _preprocess_image: pages = convert_from_path(image_path)
PdfConvert(t) ==
    /\ tasks[t].pc = "pdf_convert"
    /\ LET task == tasks[t]
       IN  tasks' = [tasks EXCEPT ![t] =
               IF ~Exists(fs, task.cur) \/ fs[task.cur].kind \notin {"pdf", "pdf0"}
               THEN Caught(task, "PDFPageCountError")
               ELSE IF fs[task.cur].kind = "pdf0"
               THEN Caught(task, "Could not convert PDF to image")
               ELSE [task EXCEPT !.pc = "pdf_save", !.img = Rasterize(fs[task.cur])]]
    /\ UNCHANGED <<fs, mode, batchVars, faults>>

\* _preprocess_image: pages[0].save(temp_path, 'JPEG'); image_path = temp_path
PdfSave(t) ==
    /\ tasks[t].pc = "pdf_save"
    /\ LET task == tasks[t]
           temp_path == Append(task.cur, "_temp.jpg")
       IN  /\ fs' = WriteFile(fs, temp_path, task.img)
           /\ tasks' = [tasks EXCEPT ![t] =
                  [task EXCEPT !.pc = "imread", !.cur = temp_path,
                               !.created = @ \cup {temp_path}]]
    /\ UNCHANGED <<mode, batchVars, faults>>

\* _preprocess_image: image = cv2.imread(image_path), then the enhancement
Imread(t) ==
    /\ tasks[t].pc = "imread"
    /\ LET task == tasks[t]
       IN  tasks' = [tasks EXCEPT ![t] =
               IF Exists(fs, task.cur) /\ fs[task.cur].kind = "image"
               THEN [task EXCEPT !.pc = "imwrite", !.img = Enhance(fs[task.cur])]
               ELSE Caught(task, "Could not read image")]
    /\ UNCHANGED <<fs, mode, batchVars, faults>>

\* _preprocess_image: cv2.imwrite(preprocessed_path, denoised); return preprocessed_path
\* (imwrite reports a failed write by returning False, which is not looked at)
Imwrite(t) ==
    /\ tasks[t].pc = "imwrite"
    /\ LET task == tasks[t]
           preprocessed_path == Append(task.cur, "_preprocessed.jpg")
       IN  \E written \in IF MayFault THEN BOOLEAN ELSE {TRUE} :
               /\ fs' = IF written THEN WriteFile(fs, preprocessed_path, task.img) ELSE fs
               /\ faults' = IF written THEN faults ELSE faults + 1
               /\ tasks' = [tasks EXCEPT ![t] =
                      [task EXCEPT !.pc = "encode", !.cur = preprocessed_path,
                                   !.created = IF written THEN @ \cup {preprocessed_path} ELSE @]]
    /\ UNCHANGED <<mode, batchVars>>

\* image_base64 = self._encode_image(image_path)
Encode(t) ==
    /\ tasks[t].pc = "encode"
    /\ LET task == tasks[t]
       IN  tasks' = [tasks EXCEPT ![t] =
               IF ~Exists(fs, task.cur) THEN NormalizationError(task, "FileNotFoundError")
               ELSE IF fs[task.cur].kind = "dir" THEN NormalizationError(task, "IsADirectoryError")
               ELSE [task EXCEPT !.b64 = Base64(fs[task.cur]),
                                 !.pc = IF ~task.legacy /\ IsTempName(task.cur)
                                        THEN "cleanup" ELSE "request"]]
    /\ UNCHANGED <<fs, mode, batchVars, faults>>

\* if image_path.endswith(('_preprocessed.jpg', '_temp.jpg')): os.remove(image_path)
Cleanup(t) ==
    /\ tasks[t].pc = "cleanup"
    /\ LET task == tasks[t]
       IN  IF Exists(fs, task.cur)
           THEN /\ fs' = RemoveFile(fs, task.cur)
                /\ tasks' = [tasks EXCEPT ![t] = [task EXCEPT !.pc = "request"]]
           ELSE /\ fs' = fs
                /\ tasks' = [tasks EXCEPT ![t] = Caught(task, "FileNotFoundError")]
    /\ UNCHANGED <<mode, batchVars, faults>>

\* response = requests.post(self.base_url, json=payload): the request leaves
SendRequest(t) ==
    /\ tasks[t].pc = "request"
    /\ tasks' = [tasks EXCEPT ![t] =
           [tasks[t] EXCEPT !.pc = "await", !.sent = Append(@, Payload(tasks[t]))]]
    /\ UNCHANGED <<fs, mode, batchVars, faults>>

\* the backend answers: result = response.json().get("response", ""), cleaned up
ReceiveResponse(t) ==
    /\ tasks[t].pc = "await"
    /\ \E text \in ResponseTexts :
           tasks' = [tasks EXCEPT ![t] =
               [Returned(tasks[t], PostProcess(tasks[t].fmt, text))
                    EXCEPT !.resp = text, !.got = "ok"]]
    /\ UNCHANGED <<fs, mode, batchVars, faults>>

\* a client that posts again after a transport failure
TransportFailureRetry(t) ==
    /\ tasks[t].pc = "await"
    /\ MayFault
    /\ faults' = faults + 1
    /\ tasks' = [tasks EXCEPT ![t] = [tasks[t] EXCEPT !.pc = "request", !.got = "transport"]]
    /\ UNCHANGED <<fs, mode, batchVars>>

\* requests.post raises: no connection, a time-out of the transport
TransportFailure(t) ==
    /\ tasks[t].pc = "await"
    /\ MayFault
    /\ faults' = faults + 1
    /\ tasks' = [tasks EXCEPT ![t] =
           [Caught(tasks[t], "ConnectionError") EXCEPT !.got = "transport"]]
    /\ UNCHANGED <<fs, mode, batchVars>>

\* response.raise_for_status() raises: the backend answered with a bad status
BadStatus(t) ==
    /\ tasks[t].pc = "await"
    /\ MayFault
    /\ faults' = faults + 1
    /\ tasks' = [tasks EXCEPT ![t] =
           [Caught(tasks[t], "HTTPError") EXCEPT !.got = "status"]]
    /\ UNCHANGED <<fs, mode, batchVars>>

\* the calls in progress
Calls == DOMAIN tasks

(***************************************************************************)
(* A single process_image call, of the packaged or of the legacy class.    *)
(***************************************************************************)
\* the paths given to a single call: images, PDFs, a corrupt file, a
\* directory, a name ending in _temp.jpg, and two paths that do not exist
SourcePaths ==
    { <<"d", "/", "a", ".png">>, <<"d", "/", "c", ".pdf">>, <<"d", "/", "bad", ".jpeg">>,
      <<"e", ".pdf">>, <<"U", ".PDF">>, <<"t", "_temp.jpg">>, <<"r", "/", "s", ".png">>,
      <<"zz", ".png">>, <<"zz", ".pdf">> }

NoStatistics == [total |-> 0, successful |-> 0, failed |-> 0]

EmptyMap == [k \in {} |-> <<>>]

BatchArgs(shape, path, list, format_type, rec, pre) ==
    [shape |-> shape, path |-> path, list |-> list,
     format_type |-> format_type, recursive |-> rec, preprocess |-> pre]

IdleBatch ==
    /\ args = BatchArgs("none", <<>>, <<>>, "markdown", FALSE, TRUE)
    /\ max_workers = 1
    /\ image_paths = <<>>
    /\ bpc = "none"
    /\ results = EmptyMap
    /\ errors = EmptyMap
    /\ collected = {}
    /\ report = NoStatistics

InitImage ==
    /\ mode = "image"
    /\ fs = InitialFS
    /\ faults = 0
    /\ \E path \in SourcePaths, fmt \in Formats, pre \in BOOLEAN, legacy \in BOOLEAN :
           /\ legacy => ~pre
           /\ tasks = <<[NewTask(path, fmt, pre, legacy)
                            EXCEPT !.pc = FirstPc(path, pre, legacy)]>>
    /\ IdleBatch

NextImage ==
    \/ \E t \in Calls : PdfConvert(t)
    \/ \E t \in Calls : PdfSave(t)
    \/ \E t \in Calls : Imread(t)
    \/ \E t \in Calls : Imwrite(t)
    \/ \E t \in Calls : Encode(t)
    \/ \E t \in Calls : Cleanup(t)
    \/ \E t \in Calls : SendRequest(t)
    \/ \E t \in Calls : ReceiveResponse(t)
    \/ \E t \in Calls : TransportFailure(t)
    \/ \E t \in Calls : BadStatus(t)

SpecImage == InitImage /\ [][NextImage]_vars

(***************************************************************************)
(* process_batch.                                                          *)
(***************************************************************************)
Extensions == <<".png", ".jpg", ".jpeg", ".pdf", ".tiff">>

\* fnmatch of a file name against '*' + ext: the names written by
\* process_image end in "_temp.jpg" and "_preprocessed.jpg", and so in ".jpg"
NameMatches(path, ext) ==
    \/ EndsWith(path, ext)
    \/ ext = ".jpg" /\ IsTempName(path)

\* base_path.glob(pattern + ext): every entry below base (a direct child for
\* '*', at any depth for '**/*') whose name matches, file or directory
Glob(base, rec, ext) ==
    LET under == Append(base, "/")
    IN  { p \in DOMAIN fs :
            /\ IsPrefix(under, p)
            /\ Len(p) > Len(under)
            /\ NameMatches(p, ext)
            /\ rec \/ \A i \in (Len(under) + 1)..Len(p) : p[i] # "/" }

ExtRank(path) == CHOOSE k \in DOMAIN Extensions : NameMatches(path, Extensions[k])

\* the lists the five glob calls may produce, one after the other: the order
\* of the entries of one call is the directory's
GlobLists(base, rec) ==
    LET found == UNION {Glob(base, rec, Extensions[k]) : k \in DOMAIN Extensions}
        n == Cardinality(found)
    IN  { s \in [1..n -> found] :
            /\ \A i, j \in 1..n : i < j => s[i] # s[j] /\ ExtRank(s[i]) <= ExtRank(s[j]) }

IsDir(path) == Exists(fs, path) /\ fs[path].kind = "dir"

\* lines 168-179: the task list of an input
PathLists(a) ==
    IF a.shape = "str"
    THEN LET base_path == StrOfPath(a.path)
         IN  IF IsDir(base_path) THEN GlobLists(base_path, a.recursive)
             ELSE {<<base_path>>}
    ELSE {[i \in DOMAIN a.list |-> StrOfPath(a.list[i])]}

CollectPaths ==
    /\ bpc = "collect_paths"
    /\ \E paths \in PathLists(args) :
           /\ image_paths' = paths
           /\ bpc' = IF Len(paths) = 0 THEN "collect" ELSE "submit"
    /\ UNCHANGED <<fs, tasks, mode, args, max_workers, results, errors, collected,
                   report, faults>>

\* executor.submit(self.process_image, str(path), format_type, preprocess),
\* for the next path of image_paths
Submit ==
    /\ bpc = "submit"
    /\ LET k == Len(tasks) + 1
       IN  /\ tasks' = Append(tasks, NewTask(image_paths[k], args.format_type,
                                               args.preprocess, FALSE))
           /\ bpc' = IF k = Len(image_paths) THEN "collect" ELSE "submit"
    /\ UNCHANGED <<fs, mode, args, max_workers, image_paths, results, errors,
                   collected, report, faults>>

Running == {t \in Calls : tasks[t].pc \notin {"queued", "done"}}

Queued == {t \in Calls : tasks[t].pc = "queued"}

\* a pool that starts a thread for every queued call
StartTaskUnbounded(t) ==
    /\ mode = "batch"
    /\ t \in Queued
    /\ \A u \in Queued : t <= u
    /\ tasks' = [tasks EXCEPT ![t] =
           [@ EXCEPT !.pc = FirstPc(tasks[t].path, tasks[t].pre, tasks[t].legacy)]]
    /\ UNCHANGED <<fs, mode, batchVars, faults>>

\* a worker thread of the pool takes the oldest queued call and enters
\* process_image; the pool has max_workers threads
StartTask(t) ==
    /\ mode = "batch"
    /\ t \in Queued
    /\ \A u \in Queued : t <= u
    /\ Cardinality(Running) < max_workers
    /\ tasks' = [tasks EXCEPT ![t] =
           [@ EXCEPT !.pc = FirstPc(tasks[t].path, tasks[t].pre, tasks[t].legacy)]]
    /\ UNCHANGED <<fs, mode, batchVars, faults>>

Put(map, key, value) == [k \in DOMAIN map \cup {key} |-> IF k = key THEN value ELSE map[k]]

\* a collector that files an error string under errors as well
CollectMarkingErrors(t) ==
    /\ bpc = "collect"
    /\ t \in Calls \ collected
    /\ tasks[t].pc = "done"
    /\ results' = Put(results, image_paths[t], tasks[t].ret.val)
    /\ errors' = IF Len(tasks[t].ret.val) > 0 /\ tasks[t].ret.val[1] = ErrorPrefix
                 THEN Put(errors, image_paths[t], tasks[t].ret.val) ELSE errors
    /\ collected' = collected \cup {t}
    /\ UNCHANGED <<fs, tasks, mode, args, max_workers, image_paths, bpc, report, faults>>

\* one round of the loop over as_completed(future_to_path): a finished future
\* is yielded, and its result or its exception is filed under str(path)
Collect(t) ==
    /\ bpc = "collect"
    /\ t \in Calls \ collected
    /\ tasks[t].pc = "done"
    /\ IF tasks[t].ret.kind = "return"
       THEN /\ results' = Put(results, image_paths[t], tasks[t].ret.val)
            /\ errors' = errors
       ELSE /\ errors' = Put(errors, image_paths[t], tasks[t].ret.val)
            /\ results' = results
    /\ collected' = collected \cup {t}
    /\ UNCHANGED <<fs, tasks, mode, args, max_workers, image_paths, bpc, report, faults>>

\* a loop that stops at the first finished future
ReturnAfterFirst ==
    /\ bpc = "collect"
    /\ collected # {} \/ Calls = {}
    /\ report' = [total |-> Len(image_paths),
                  successful |-> Cardinality(DOMAIN results),
                  failed |-> Cardinality(DOMAIN errors)]
    /\ bpc' = "returned"
    /\ UNCHANGED <<fs, tasks, mode, args, max_workers, image_paths, results, errors,
                   collected, faults>>

\* the loop is exhausted, the executor is shut down (it waits for its
\* threads), and the report is returned
Return ==
    /\ bpc = "collect"
    /\ collected = Calls
    /\ \A t \in Calls : tasks[t].pc = "done"
    /\ report' = [total |-> Len(image_paths),
                  successful |-> Cardinality(DOMAIN results),
                  failed |-> Cardinality(DOMAIN errors)]
    /\ bpc' = "returned"
    /\ UNCHANGED <<fs, tasks, mode, args, max_workers, image_paths, results, errors,
                   collected, faults>>

\* the paths of an explicit list: an image (written with a doubled separator)
\* and a PDF; a list may hold a path more than once
ListPaths ==
    { <<"d", "/", "/", "a", ".png">>, <<"d", "/", "c", ".pdf">> }

RECURSIVE ListsUpTo(_)
ListsUpTo(n) ==
    IF n = 0 THEN {<<>>}
    ELSE LET shorter == ListsUpTo(n - 1)
         IN  shorter \cup {Append(s, p) : s \in {x \in shorter : Len(x) = n - 1}, p \in ListPaths}

\* the strings given as input_path: three directories (one with a trailing
\* separator), a file, and a path that does not exist
StringInputs ==
    { <<"d">>, <<"q">>, <<"r">>, <<"q", "/">>, <<"d", "/", "b", ".jpg">>, <<"zz", ".png">> }

\* the format strings given to a batch
BatchFormats == {"markdown"}

Init ==
    /\ mode = "batch"
    /\ fs = InitialFS
    /\ faults = 0
    /\ tasks = <<>>
    /\ max_workers \in 1..MaxWorkers
    /\ \E fmt \in BatchFormats, pre \in BOOLEAN :
           \/ \E path \in StringInputs, rec \in BOOLEAN :
                  /\ rec => IsDir(StrOfPath(path))
                  /\ args = BatchArgs("str", path, <<>>, fmt, rec, pre)
           \/ \E list \in ListsUpTo(MaxListLen) :
                  args = BatchArgs("list", <<>>, list, fmt, FALSE, pre)
    /\ image_paths = <<>>
    /\ bpc = "collect_paths"
    /\ results = EmptyMap
    /\ errors = EmptyMap
    /\ collected = {}
    /\ report = NoStatistics

Next ==
    \/ CollectPaths
    \/ Submit
    \/ \E t \in Calls : StartTask(t)
    \/ \E t \in Calls : PdfConvert(t)
    \/ \E t \in Calls : PdfSave(t)
    \/ \E t \in Calls : Imread(t)
    \/ \E t \in Calls : Imwrite(t)
    \/ \E t \in Calls : Encode(t)
    \/ \E t \in Calls : Cleanup(t)
    \/ \E t \in Calls : SendRequest(t)
    \/ \E t \in Calls : ReceiveResponse(t)
    \/ \E t \in Calls : TransportFailure(t)
    \/ \E t \in Calls : BadStatus(t)
    \/ \E t \in Calls : Collect(t)
    \/ Return

Spec == Init /\ [][Next]_vars

\* every thread that can take a step eventually takes one: the workers run,
\* the backend answers, the collecting loop goes on
FairSpec == Spec /\ WF_vars(Next)

(***************************************************************************)
(* Claims about a single process_image call (specification SpecImage).     *)
(***************************************************************************)
Done(t) == tasks[t].pc = "done"

IsErrorResult(task) ==
    task.ret.kind = "return" /\ Len(task.ret.val) > 0 /\ task.ret.val[1] = ErrorPrefix

\* C3: after a process_image call has ended, however it ended, no file that
\* the call created (the _temp.jpg page, the _preprocessed.jpg image) exists.
C3_NoIntermediateFileRemains ==
    \A t \in Calls : Done(t) => \A p \in tasks[t].created : ~Exists(fs, p)

\* C4: process_image never raises: every call ends by returning a string, and
\* a call that failed returns one that begins with "Error processing image:".
C4_NeverRaises ==
    \A t \in Calls : Done(t) =>
        /\ tasks[t].ret.kind = "return"
        /\ tasks[t].got # "ok" => IsErrorResult(tasks[t])

\* the packaged process_image alone does not raise (the legacy one does)
PackagedNeverRaises ==
    \A t \in Calls : (Done(t) /\ ~tasks[t].legacy) =>
        /\ tasks[t].ret.kind = "return"
        /\ tasks[t].got # "ok" => IsErrorResult(tasks[t])

StripLayout(s) == SelectSeq(s, LAMBDA c : c \notin {" ", "\n"})

\* the first position from i on that holds no space
RECURSIVE SkipSpaces(_, _)
SkipSpaces(s, i) == IF i <= Len(s) /\ s[i] = " " THEN SkipSpaces(s, i + 1) ELSE i

\* how many brackets are open before position i
Depth(s, i) ==
    Cardinality({j \in 1..(i - 1) : s[j] = "["}) - Cardinality({j \in 1..(i - 1) : s[j] = "]"})

\* s is laid out as json.dumps lays a value out with indent n: a line break
\* after every opening bracket of a non-empty array and after every comma and
\* before the closing bracket of a non-empty array, every line indented by n
\* spaces per open bracket, and no other space
IsIndented(s, n) ==
    /\ \A i \in 1..Len(s) : s[i] = "\n" =>
           LET k == SkipSpaces(s, i + 1)
           IN  /\ k <= Len(s)
               /\ s[k] # "\n"
               /\ k - (i + 1) = n * (Depth(s, i) - (IF s[k] = "]" THEN 1 ELSE 0))
    /\ \A i \in 1..Len(s) : s[i] = " " => i > 1 /\ s[i - 1] \in {" ", "\n"}
    /\ \A i \in 1..Len(s) : s[i] = "[" => i < Len(s) /\ s[i + 1] \in {"]", "\n"}
    /\ \A i \in 1..Len(s) : s[i] = "," => i < Len(s) /\ s[i + 1] = "\n"
    /\ \A i \in 1..Len(s) : s[i] = "]" => i > 1 /\ s[i - 1] \in {"[", " ", "\n"}

\* C8: for format "json", a response text that is valid JSON comes back
\* re-serialized with 2-space indentation (the same tokens, laid out anew), a
\* text that is not valid JSON comes back unchanged, and neither is an error.
C8_JsonReserializedOrRaw ==
    \A t \in Calls : (Done(t) /\ tasks[t].fmt = "json" /\ tasks[t].got = "ok") =>
        /\ tasks[t].ret.kind = "return"
        /\ ~IsErrorResult(tasks[t])
        /\ IF json_loads(tasks[t].resp).ok
           THEN /\ StripLayout(tasks[t].ret.val) = StripLayout(tasks[t].resp)
                /\ IsIndented(tasks[t].ret.val, 2)
                /\ json_loads(tasks[t].ret.val) = [json_loads(tasks[t].resp) EXCEPT
                       !.next = Len(tasks[t].ret.val) + 1]
           ELSE tasks[t].ret.val = tasks[t].resp

C8_Witness ==
    \E t \in Calls :
        /\ Done(t) /\ tasks[t].fmt = "json" /\ tasks[t].got = "ok"
        /\ tasks[t].resp = <<"[", "1", "]">>
        /\ tasks[t].ret.val = <<"[", "\n", " ", " ", "1", "\n", "]">>

\* C9: a format string outside the catalogue sends the instruction of format
\* "text", and the call is not an error: it returns the response text.
C9_UnknownFormatIsText ==
    \A t \in Calls : tasks[t].fmt \notin {"markdown", "text", "json", "structured", "key_value"} =>
        /\ \A i \in DOMAIN tasks[t].sent : tasks[t].sent[i].prompt = prompts["text"]
        /\ (Done(t) /\ tasks[t].got = "ok") =>
               tasks[t].ret = [kind |-> "return", val |-> tasks[t].resp]

C9_Witness ==
    \E t \in Calls :
        /\ Done(t) /\ tasks[t].fmt = "xml" /\ tasks[t].got = "ok"
        /\ Len(tasks[t].sent) = 1 /\ tasks[t].sent[1].prompt = prompts["text"]
        /\ tasks[t].resp = <<"1">> /\ tasks[t].ret.val = <<"1">>

(***************************************************************************)
(* Claims about process_batch (specifications Spec and FairSpec).          *)
(***************************************************************************)
BatchReturned == bpc = "returned"

\* the call failed: a source that cannot be read or decoded, a failed
\* normalization step, a transport failure, a bad status
Failed(t) == Done(t) /\ (tasks[t].ret.kind = "raise" \/ IsErrorResult(tasks[t]))

\* C1: when process_batch returns, statistics.total is the number of keys of
\* results plus the number of keys of errors, for every input shape.
C1_TotalIsResultsPlusErrors ==
    BatchReturned => report.total = Cardinality(DOMAIN results) + Cardinality(DOMAIN errors)

\* C2: when process_batch returns, every item whose processing failed is a
\* key of errors and not of results, statistics.failed counts the failed
\* items and statistics.successful the others.
C2_FailuresGoToErrors ==
    BatchReturned =>
        /\ \A t \in Calls : Failed(t) =>
               image_paths[t] \in DOMAIN errors /\ image_paths[t] \notin DOMAIN results
        /\ report.failed = Cardinality({t \in Calls : Failed(t)})
        /\ report.successful = Cardinality({t \in Calls : ~Failed(t)})

\* C5: when process_batch returns, every path of the task list is a key of
\* exactly one of results and errors.
C5_EachPathInExactlyOne ==
    BatchReturned => \A i \in DOMAIN image_paths :
        (image_paths[i] \in DOMAIN results) # (image_paths[i] \in DOMAIN errors)

C5_Witness ==
    /\ BatchReturned
    /\ Len(image_paths) = 4
    /\ \E t \in Calls : Failed(t)
    /\ \E t \in Calls : ~Failed(t)
    /\ \A i \in DOMAIN image_paths : image_paths[i] \in DOMAIN results

\* every path has been submitted, every call has run to its end and has been
\* collected
AllFinished ==
    /\ Len(tasks) = Len(image_paths)
    /\ \A t \in Calls : Done(t) /\ tasks[t].ret.kind # "none"
    /\ collected = Calls

\* C6: process_batch has returned only when every submitted call has run to
\* its end (none is pending, running or dropped), and, the calls all ending,
\* process_batch does return.
C6_ReturnsAfterAllFinished == [](BatchReturned => AllFinished) /\ <>BatchReturned

C6_Witness ==
    /\ BatchReturned
    /\ Len(tasks) = 4
    /\ max_workers = 2
    /\ \E t \in Calls : Failed(t)

\* the entries, files and directories alike, below the input directory, at
\* the depth asked for, whose name ends in one of the five extensions
EntriesBelow(base, rec) ==
    { p \in DOMAIN InitialFS :
        /\ IsPrefix(Append(base, "/"), p)
        /\ \E k \in DOMAIN Extensions : NameMatches(p, Extensions[k])
        /\ rec \/ \A i \in (Len(base) + 2)..Len(p) : p[i] # "/" }

\* what the discovery of a directory does yield: those entries, each once
DiscoversEntries ==
    (bpc # "collect_paths" /\ args.shape = "str" /\ Exists(InitialFS, StrOfPath(args.path))
        /\ InitialFS[StrOfPath(args.path)].kind = "dir") =>
        /\ {image_paths[i] : i \in DOMAIN image_paths}
               = EntriesBelow(StrOfPath(args.path), args.recursive)
        /\ \A i, j \in DOMAIN image_paths : i # j => image_paths[i] # image_paths[j]

\* the files (not the directories) below the input directory, at the depth
\* asked for, whose extension is one of the five
ImageFilesBelow(base, rec) ==
    { p \in DOMAIN InitialFS :
        /\ InitialFS[p].kind # "dir"
        /\ IsPrefix(Append(base, "/"), p)
        /\ \E k \in DOMAIN Extensions : NameMatches(p, Extensions[k])
        /\ rec \/ \A i \in (Len(base) + 2)..Len(p) : p[i] # "/" }

\* C10: for a directory, the task list holds exactly the files with one of
\* the five extensions that are direct children of it (recursive = false) or
\* below it at any depth (recursive = true), each once.
C10_DiscoversImageFiles ==
    (bpc # "collect_paths" /\ args.shape = "str" /\ Exists(InitialFS, StrOfPath(args.path))
        /\ InitialFS[StrOfPath(args.path)].kind = "dir") =>
        /\ {image_paths[i] : i \in DOMAIN image_paths}
               = ImageFilesBelow(StrOfPath(args.path), args.recursive)
        /\ \A i, j \in DOMAIN image_paths : i # j => image_paths[i] # image_paths[j]

\* what process_image returns for a path when it runs alone on the initial
\* file system, with no fault, the backend answering text
AloneResult(path, fmt, pre, text) ==
    LET failure(reason) == <<ErrorPrefix, reason>>
        there == Exists(InitialFS, path)
    IN  IF pre
        THEN IF EndsWith(Lower(path), ".pdf")
             THEN IF ~there \/ InitialFS[path].kind \notin {"pdf", "pdf0"}
                  THEN failure("PDFPageCountError")
                  ELSE IF InitialFS[path].kind = "pdf0"
                  THEN failure("Could not convert PDF to image")
                  ELSE PostProcess(fmt, text)
             ELSE IF there /\ InitialFS[path].kind = "image"
                  THEN PostProcess(fmt, text)
                  ELSE failure("Could not read image")
        ELSE IF ~there THEN failure("FileNotFoundError")
             ELSE IF InitialFS[path].kind = "dir" THEN failure("IsADirectoryError")
             ELSE PostProcess(fmt, text)

OutcomeAsAlone(t) ==
    Done(t) => tasks[t].ret = [kind |-> "return",
                               val |-> AloneResult(tasks[t].path, tasks[t].fmt,
                                                   tasks[t].pre, <<"1">>)]

NoRepeatedPath == \A i, j \in DOMAIN image_paths : i # j => image_paths[i] # image_paths[j]

\* C11: in a batch with max_workers >= 2 and no fault of the environment,
\* every call ends, under every interleaving, as it ends when it runs alone,
\* two calls for the same source path with preprocess enabled included.
C11_TasksIndependent ==
    (mode = "batch" /\ max_workers >= 2 /\ faults = 0) => \A t \in Calls : OutcomeAsAlone(t)

\* the calls of a batch do end as they end alone when they run one at a time,
\* and when no path is submitted twice
SerialOutcomeAsAlone ==
    (mode = "batch" /\ max_workers = 1 /\ faults = 0) => \A t \in Calls : OutcomeAsAlone(t)

DistinctOutcomeAsAlone ==
    (mode = "batch" /\ NoRepeatedPath /\ bpc # "collect_paths" /\ faults = 0) =>
        \A t \in Calls : OutcomeAsAlone(t)

\* the calls whose request is with the backend
InFlight == {t \in Calls : tasks[t].pc = "await"}

\* C12: in a batch, never more than max_workers calls run at a time, and so
\* never more than max_workers requests are with the backend; every path has
\* been submitted before a result is collected; with max_workers = 1 the
\* calls run one at a time.
C12_AtMostMaxWorkersRunning ==
    mode = "batch" =>
        /\ Cardinality(Running) <= max_workers
        /\ Cardinality(InFlight) <= max_workers
        /\ collected # {} => Len(tasks) = Len(image_paths)
        /\ max_workers = 1 => Cardinality(Running) <= 1

C12_Witness ==
    /\ mode = "batch"
    /\ max_workers = 2
    /\ Cardinality(InFlight) = 2
    /\ Queued # {}
    /\ collected = {}
    /\ Len(tasks) = Len(image_paths)

\* the batch was given the same path twice, and nothing else
SamePathTwice ==
    /\ mode = "batch"
    /\ Len(image_paths) = 2
    /\ image_paths[1] = image_paths[2]

\* the outcome of call t is in the report, under the path of the call
OutcomeKept(t) ==
    IF tasks[t].ret.kind = "return"
    THEN image_paths[t] \in DOMAIN results /\ results[image_paths[t]] = tasks[t].ret.val
    ELSE image_paths[t] \in DOMAIN errors /\ errors[image_paths[t]] = tasks[t].ret.val

\* the counts of a report for the same path twice are the same whatever the
\* order in which the two calls end and are collected
SamePathTwiceCounts ==
    (BatchReturned /\ SamePathTwice) =>
        /\ report = [total |-> 2, successful |-> 1, failed |-> 0]
        /\ Cardinality(DOMAIN results) = 1
        /\ Cardinality(DOMAIN errors) = 0

\* C13: for the same path submitted twice with max_workers = 2, the counts of
\* the report are the same under every interleaving, and the outcome of each
\* of the two calls is in the report.
C13_SamePathTwiceNothingLost ==
    (BatchReturned /\ SamePathTwice /\ max_workers = 2) =>
        /\ report = [total |-> 2, successful |-> 1, failed |-> 0]
        /\ Cardinality(DOMAIN results) = 1
        /\ Cardinality(DOMAIN errors) = 0
        /\ \A t \in Calls : OutcomeKept(t)

\* the file at path is as it was before the call
SourceUntouched(path) ==
    Exists(InitialFS, path) => Exists(fs, path) /\ fs[path] = InitialFS[path]

\* C14: a process_image call never deletes or replaces its source file: a
\* source that existed before the call exists unchanged after it, whatever
\* its name, the preprocess setting and the outcome.
C14_SourceFileKept ==
    \A t \in Calls : Done(t) => SourceUntouched(tasks[t].path)

\* a call removes nothing but its source or a file it has written itself, and
\* keeps every source whose name does not end in _temp.jpg or _preprocessed.jpg
OnlyTempNamedSourceRemoved ==
    \A t \in Calls :
        /\ Done(t) /\ ~IsTempName(tasks[t].path) => SourceUntouched(tasks[t].path)
        /\ \A p \in DOMAIN InitialFS : p # tasks[t].path => Exists(fs, p) /\ fs[p] = InitialFS[p]

====
